---- MODULE Spec2Model ----
(***************************************************************************)
(* Cloth simulation (src/main.rs): the mesh/topology builder               *)
(* create_cloth_mesh, the construction of the compute configuration in     *)
(* MyApp::new, and the per-frame driver MyApp::update that writes the       *)
(* uniform record and encodes the two compute dispatches.                  *)
(*                                                                         *)
(* Abstractions.  Positions are grid offsets (the altitude is a symbol).   *)
(* A rest length is stored by its square (1, 2, 4 for 1.0, 1.41421356,     *)
(* 2.0).  sphere_radius is stored in units of 1/700: SPHERE_RADIUS is      *)
(* CLOTH_WIDTH/7 and the two scale factors are 1.05 and 1.15.  delta_time  *)
(* is in milliseconds.  CLOTH_WIDTH is a compile-time constant of the      *)
(* source (30); here it is fixed by Init to one value of BuildWidths and   *)
(* never changes.                                                          *)
(***************************************************************************)
EXTENDS Integers, Sequences, FiniteSets

\* ---------------------------------------------------------------- bounds
\* Largest grid width explored.
MaxWidth == 6
\* Number of frames (calls of update) explored.
MaxFrames == 3
\* Lanes of the modelled device: work units it runs concurrently.
MaxInFlight == 2
\* Largest grid width whose kernel executions are interleaved unit by unit.
MaxGpuWidth == 2

VARIABLES
    CLOTH_WIDTH,          \* const CLOTH_WIDTH
    overflow_checks,      \* build profile: integer overflow panics (debug) or wraps (release)
    width,                \* argument of create_cloth_mesh
    pc,                   \* position of the host program
    vertices, indices, velocities, springs,   \* the four vectors create_cloth_mesh builds
    i,                    \* loop variable of the spring loop
    compute_data,         \* MyApp.compute_data
    compute_data_buffer,  \* contents of the uniform buffer
    nb_cloth_indices,     \* MyApp.nb_cloth_indices
    delta_time,           \* argument of the running update call
    encoder,              \* dispatches recorded in the open compute pass
    executed,             \* dispatches submitted to the queue, in order, each with the uniform it reads
    frame,                \* completed update calls
    gpu_pc,               \* device: "idle", "springs", "vertices"
    next_unit,            \* device: per lane, the work unit it runs next
    in_flight,            \* device: per lane, endpoint writes its spring unit has done (0 or 1)
    accum,                \* device: per-vertex accumulator (indices of the springs added)
    observed              \* device: per-vertex accumulator value the integration unit read

hostVars == <<CLOTH_WIDTH, overflow_checks, width, pc, vertices, indices, velocities,
              springs, i, compute_data, compute_data_buffer, nb_cloth_indices,
              delta_time, encoder, executed, frame>>
gpuVars == <<gpu_pc, next_unit, in_flight, accum, observed>>
vars == <<hostVars, gpuVars>>

\* ------------------------------------------------------- program constants
NB_CLOTH_VERTICES == CLOTH_WIDTH * CLOTH_WIDTH
NB_CLOTH_SPRINGS == 6 * CLOTH_WIDTH * CLOTH_WIDTH - 10 * CLOTH_WIDTH + 2
STRUCTURAL_STIFFNESS == 200
SHEAR_STIFFNESS == 140
BEND_STIFFNESS == 70

\* Values of CLOTH_WIDTH the crate builds with.  Width 1 is absent: the
\* constant NB_CLOTH_SPRINGS evaluates 6 - 10 in u32, which is a compile error.
BuildWidths == {0} \cup (2..MaxWidth)

\* Per-frame delta_time values the frame driver may pass (ms).
DeltaTimes == {16, 33}

\* `x as u16` / u16 wrapping arithmetic.
U16(x) == x % 65536

\* `x as f32` of a non-negative integer below 2^25: exact up to 2^24, then
\* rounded to the nearest even integer, ties to the multiple of 4.
AsF32(x) ==
    IF x <= 16777216 \/ x % 2 = 0 THEN x
    ELSE IF (x + 1) % 4 = 0 THEN x + 1 ELSE x - 1

CeilDiv64(n) == (n + 63) \div 64

\* ----------------------------------------------------- create_cloth_mesh
\* Vertex k (0-based) of the z-outer, x-inner loop.
VertexAt(k, w) ==
    [px |-> (k % w) - (w \div 2), py |-> "altitude", pz |-> (k \div w) - (w \div 2)]

BuildVertexList(w) == [k \in 1..(w * w) |-> VertexAt(k - 1, w)]

CellIndices2(z, x, w) ==
    LET v0 == U16(z * w + x)
        v1 == U16(z * w + x + 1)
        v2 == U16((z + 1) * w + x)
    IN  <<v0, v1, v2, v1, U16((z + 1) * w + x + 1), v2>>

\* The twelve indices pushed for cell (z, x): both winding orders.
CellIndices(z, x, w) ==
    LET v0 == U16(z * w + x)
        v1 == U16(z * w + x + 1)
        v2 == U16((z + 1) * w + x)
        v3 == U16((z + 1) * w + x + 1)
    IN  <<v0, v1, v2, v1, v3, v2>> \o <<v0, v2, v1, v1, v2, v3>>

RECURSIVE IndexRow(_, _, _)
IndexRow(z, x, w) ==
    IF x >= w - 1 THEN <<>> ELSE CellIndices(z, x, w) \o IndexRow(z, x + 1, w)

RECURSIVE IndexRows(_, _)
IndexRows(z, w) ==
    IF z >= w - 1 THEN <<>> ELSE IndexRow(z, 0, w) \o IndexRows(z + 1, w)

BuildIndexList(w) == IndexRows(0, w)

BuildVelocityList(vs) == [k \in 1..Len(vs) |-> <<0, 0, 0>>]

Spring(a, b, len2, k) ==
    [vertex1 |-> AsF32(a), vertex2 |-> AsF32(b), rest_length_sq |-> len2, stiffness |-> k]

StructuralHorizontalCond_NoRowCheck(n) == n + 1 < NB_CLOTH_VERTICES

StructuralHorizontalCond(n) ==
    n + 1 < NB_CLOTH_VERTICES /\ ((n + 1) % CLOTH_WIDTH) # 0

StructuralVerticalCond(n) == n + CLOTH_WIDTH < NB_CLOTH_VERTICES

ShearNeSwCond_NoLeftCheck(n) == n + CLOTH_WIDTH < NB_CLOTH_VERTICES

ShearNeSwCond(n) ==
    (n % CLOTH_WIDTH) # 0 /\ n + CLOTH_WIDTH < NB_CLOTH_VERTICES

ShearNwSeCond_NoRightCheck(n) == n + CLOTH_WIDTH < NB_CLOTH_VERTICES

ShearNwSeCond(n) ==
    ((n + 1) % CLOTH_WIDTH) # 0 /\ n + CLOTH_WIDTH < NB_CLOTH_VERTICES

BendVerticalCond(n) == n + 2 * CLOTH_WIDTH < NB_CLOTH_VERTICES

BendHorizontalCond_OneColumn(n) == ((n + 1) % CLOTH_WIDTH) # 0

BendHorizontalCond(n) ==
    ((n + 1) % CLOTH_WIDTH) # 0 /\ ((n + 2) % CLOTH_WIDTH) # 0

Emit(cond, s) == IF cond THEN <<s>> ELSE <<>>

\* The springs pushed by one iteration of the spring loop, in push order.
SpringsAt(n) ==
       Emit(StructuralHorizontalCond(n), Spring(n, n + 1, 1, STRUCTURAL_STIFFNESS))
    \o Emit(StructuralVerticalCond(n), Spring(n, n + CLOTH_WIDTH, 1, STRUCTURAL_STIFFNESS))
    \o Emit(ShearNeSwCond(n), Spring(n, n + CLOTH_WIDTH - 1, 2, SHEAR_STIFFNESS))
    \o Emit(ShearNwSeCond(n), Spring(n, n + CLOTH_WIDTH + 1, 2, SHEAR_STIFFNESS))
    \o Emit(BendVerticalCond(n), Spring(n, n + 2 * CLOTH_WIDTH, 4, BEND_STIFFNESS))
    \o Emit(BendHorizontalCond(n), Spring(n, n + 2, 4, BEND_STIFFNESS))

\* for z in 0..height { for x in 0..width { vertices.push(..) } }
BuildVertices ==
    /\ pc = "vertices"
    /\ vertices' = BuildVertexList(width)
    /\ pc' = "indices"
    /\ UNCHANGED <<CLOTH_WIDTH, overflow_checks, width, indices, velocities, springs, i,
                   compute_data, compute_data_buffer, nb_cloth_indices, delta_time,
                   encoder, executed, frame, gpuVars>>

\* `height - 1` with height = 0, overflow checks on: the thread panics.
IndicesOverflowPanic ==
    /\ pc = "indices"
    /\ width = 0
    /\ overflow_checks
    /\ pc' = "panicked"
    /\ UNCHANGED <<CLOTH_WIDTH, overflow_checks, width, vertices, indices, velocities,
                   springs, i, compute_data, compute_data_buffer, nb_cloth_indices,
                   delta_time, encoder, executed, frame, gpuVars>>

\* `height - 1` with height = 0, overflow checks off: the bound wraps to
\* 65535 and the loops run over 65535 * 65535 cells; not followed further.
IndicesOverflowWrap ==
    /\ pc = "indices"
    /\ width = 0
    /\ ~overflow_checks
    /\ U16(width - 1) > MaxWidth
    /\ pc' = "diverged"
    /\ UNCHANGED <<CLOTH_WIDTH, overflow_checks, width, vertices, indices, velocities,
                   springs, i, compute_data, compute_data_buffer, nb_cloth_indices,
                   delta_time, encoder, executed, frame, gpuVars>>

\* for z in 0..height - 1 { for x in 0..width - 1 { indices.extend(..) } }
BuildIndices ==
    /\ pc = "indices"
    /\ width >= 1
    /\ indices' = BuildIndexList(width)
    /\ pc' = "velocities"
    /\ UNCHANGED <<CLOTH_WIDTH, overflow_checks, width, vertices, velocities, springs, i,
                   compute_data, compute_data_buffer, nb_cloth_indices, delta_time,
                   encoder, executed, frame, gpuVars>>

\* for vertex in vertices.iter_mut() { velocities.push(zero) }
BuildVelocities ==
    /\ pc = "velocities"
    /\ velocities' = BuildVelocityList(vertices)
    /\ i' = 0
    /\ pc' = "springs"
    /\ UNCHANGED <<CLOTH_WIDTH, overflow_checks, width, vertices, indices, springs,
                   compute_data, compute_data_buffer, nb_cloth_indices, delta_time,
                   encoder, executed, frame, gpuVars>>

\* One iteration of `for i in 0..NB_CLOTH_VERTICES`.
SpringIteration ==
    /\ pc = "springs"
    /\ i < NB_CLOTH_VERTICES
    /\ springs' = springs \o SpringsAt(i)
    /\ i' = i + 1
    /\ UNCHANGED <<CLOTH_WIDTH, overflow_checks, width, pc, vertices, indices, velocities,
                   compute_data, compute_data_buffer, nb_cloth_indices, delta_time,
                   encoder, executed, frame, gpuVars>>

\* The loop ends and the tuple is returned to MyApp::new.
ReturnMesh ==
    /\ pc = "springs"
    /\ i >= NB_CLOTH_VERTICES
    /\ pc' = "new"
    /\ UNCHANGED <<CLOTH_WIDTH, overflow_checks, width, vertices, indices, velocities,
                   springs, i, compute_data, compute_data_buffer, nb_cloth_indices,
                   delta_time, encoder, executed, frame, gpuVars>>

\* ------------------------------------------------------------ MyApp::new
ComputeData(dt, radius_scale) ==
    [delta_time |-> dt,
     nb_cloth_vertices |-> AsF32(NB_CLOTH_VERTICES),
     nb_cloth_springs |-> AsF32(NB_CLOTH_SPRINGS),
     cloth_vertex_mass |-> "CLOTH_VERTEX_MASS",
     gravity |-> "GRAVITY",
     structural_stiffness |-> STRUCTURAL_STIFFNESS,
     shear_stiffness |-> SHEAR_STIFFNESS,
     bend_stiffness |-> BEND_STIFFNESS,
     sphere_radius |-> CLOTH_WIDTH * radius_scale,
     sphere_position_x |-> 0,
     sphere_position_y |-> 0,
     sphere_position_z |-> 0]

\* let compute_data = ComputeData { delta_time: 0.016, .., sphere_radius: SPHERE_RADIUS * 1.05, .. }
NewComputeData == ComputeData(16, 105)

\* let compute_data = ComputeData { delta_time, .., sphere_radius: SPHERE_RADIUS * 1.15, .. }
UpdateComputeData(dt) == ComputeData(dt, 115)

\* The rest of MyApp::new: buffers, compute_data, Self { .. }.
NewApp ==
    /\ pc = "new"
    /\ compute_data' = NewComputeData
    /\ compute_data_buffer' = NewComputeData
    /\ nb_cloth_indices' = Len(indices)
    /\ pc' = "idle"
    /\ UNCHANGED <<CLOTH_WIDTH, overflow_checks, width, vertices, indices, velocities,
                   springs, i, delta_time, encoder, executed, frame, gpuVars>>

\* --------------------------------------------------------- MyApp::update
WriteBuffer_Skipped(buffer, data) == buffer

\* context.update_buffer(&buffer, &[data])
WriteBuffer(buffer, data) == data

RecordDispatch_Replace(pass, cmd) == <<cmd>>

\* compute_pass.dispatch_workgroups(..) on the open pass
RecordDispatch(pass, cmd) == Append(pass, cmd)

\* update is entered with delta_time; the record is built and written.
UpdateBuffer ==
    /\ pc = "idle"
    /\ frame < MaxFrames
    /\ \E dt \in DeltaTimes :
          /\ delta_time' = dt
          /\ compute_data_buffer' = WriteBuffer(compute_data_buffer, UpdateComputeData(dt))
    /\ encoder' = <<>>
    /\ pc' = "pass_springs"
    /\ UNCHANGED <<CLOTH_WIDTH, overflow_checks, width, vertices, indices, velocities,
                   springs, i, compute_data, nb_cloth_indices, executed, frame, gpuVars>>

\* set_pipeline(compute_springs_pipeline); dispatch_workgroups(ceil(NB_CLOTH_SPRINGS / 64))
DispatchSprings ==
    /\ pc = "pass_springs"
    /\ encoder' = RecordDispatch(encoder,
                     [phase |-> "springs", workgroups |-> CeilDiv64(NB_CLOTH_SPRINGS)])
    /\ pc' = "pass_vertices"
    /\ UNCHANGED <<CLOTH_WIDTH, overflow_checks, width, vertices, indices, velocities,
                   springs, i, compute_data, compute_data_buffer, nb_cloth_indices,
                   delta_time, executed, frame, gpuVars>>

\* set_pipeline(compute_pipeline); dispatch_workgroups(ceil(NB_CLOTH_VERTICES / 64))
DispatchVertices ==
    /\ pc = "pass_vertices"
    /\ encoder' = RecordDispatch(encoder,
                     [phase |-> "vertices", workgroups |-> CeilDiv64(NB_CLOTH_VERTICES)])
    /\ pc' = "submit"
    /\ UNCHANGED <<CLOTH_WIDTH, overflow_checks, width, vertices, indices, velocities,
                   springs, i, compute_data, compute_data_buffer, nb_cloth_indices,
                   delta_time, executed, frame, gpuVars>>

\* The commands of a submitted pass, each with the uniform record it reads
\* and the frame (1-based) and delta_time of the update call that encoded it.
Submitted(pass, buffer, f, dt) ==
    [k \in 1..Len(pass) |->
        [phase |-> pass[k].phase, workgroups |-> pass[k].workgroups,
         data |-> buffer, frame |-> f, frame_dt |-> dt]]

\* computation.submit(); update returns.
Submit ==
    /\ pc = "submit"
    /\ executed' = executed \o Submitted(encoder, compute_data_buffer, frame + 1, delta_time)
    /\ encoder' = <<>>
    /\ frame' = frame + 1
    /\ pc' = "idle"
    /\ UNCHANGED <<CLOTH_WIDTH, overflow_checks, width, vertices, indices, velocities,
                   springs, i, compute_data, compute_data_buffer, nb_cloth_indices,
                   delta_time, gpuVars>>

\* ------------------------------------------------ the two compute kernels
\* The whole spring list, as the loop of create_cloth_mesh leaves it.
RECURSIVE SpringsFrom(_)
SpringsFrom(n) ==
    IF n >= NB_CLOTH_VERTICES THEN <<>> ELSE SpringsAt(n) \o SpringsFrom(n + 1)

Lanes == 0..(MaxInFlight - 1)

\* Invocations at or past the element count return at once.
SpringUnits == 0..(Len(springs) - 1)
VertexUnits == 0..(Len(vertices) - 1)

\* Indices of the springs one of whose endpoints is vertex v.
Incident(v) ==
    {s \in SpringUnits : springs[s + 1].vertex1 = v \/ springs[s + 1].vertex2 = v}

\* The value of `observed` for a vertex whose unit has not run in this frame.
Unread == [read |-> FALSE, value |-> {}]

AtomicAdd_Overwrite(a, v, s) == [a EXCEPT ![v] = {s}]

\* Race-free accumulation of spring s's contribution into vertex v.
AtomicAdd(a, v, s) == [a EXCEPT ![v] = @ \cup {s}]

\* Every spring unit of the first dispatch has retired.
PhaseBarrier == \A l \in Lanes : next_unit[l] \notin SpringUnits

\* One call of update, start to return, with the device idle: the record is
\* written, both dispatches are recorded and the pass is submitted.
GpuFrame ==
    /\ pc = "idle"
    /\ gpu_pc = "idle"
    /\ frame < MaxFrames
    /\ \E dt \in DeltaTimes :
          /\ delta_time' = dt
          /\ compute_data_buffer' = WriteBuffer(compute_data_buffer, UpdateComputeData(dt))
          /\ executed' = executed \o
                Submitted(RecordDispatch(RecordDispatch(<<>>,
                              [phase |-> "springs", workgroups |-> CeilDiv64(NB_CLOTH_SPRINGS)]),
                              [phase |-> "vertices", workgroups |-> CeilDiv64(NB_CLOTH_VERTICES)]),
                          compute_data_buffer', frame + 1, dt)
    /\ frame' = frame + 1
    /\ gpu_pc' = "springs"
    /\ next_unit' = [l \in Lanes |-> l]
    /\ in_flight' = [l \in Lanes |-> 0]
    /\ observed' = [v \in VertexUnits |-> Unread]
    /\ UNCHANGED <<CLOTH_WIDTH, overflow_checks, width, pc, vertices, indices, velocities,
                   springs, i, compute_data, nb_cloth_indices, encoder, accum>>

\* A spring unit adds its contribution to its first endpoint.
SpringUnitFirst(l) ==
    /\ gpu_pc = "springs"
    /\ next_unit[l] \in SpringUnits
    /\ in_flight[l] = 0
    /\ accum' = AtomicAdd(accum, springs[next_unit[l] + 1].vertex1, next_unit[l])
    /\ in_flight' = [in_flight EXCEPT ![l] = 1]
    /\ UNCHANGED <<hostVars, gpu_pc, next_unit, observed>>

\* It adds the opposite contribution to its second endpoint and retires;
\* the lane moves to its next unit.
SpringUnitSecond(l) ==
    /\ gpu_pc = "springs"
    /\ next_unit[l] \in SpringUnits
    /\ in_flight[l] = 1
    /\ accum' = AtomicAdd(accum, springs[next_unit[l] + 1].vertex2, next_unit[l])
    /\ in_flight' = [in_flight EXCEPT ![l] = 0]
    /\ next_unit' = [next_unit EXCEPT ![l] = @ + MaxInFlight]
    /\ UNCHANGED <<hostVars, gpu_pc, observed>>

\* The second dispatch starts.
StartVertices ==
    /\ gpu_pc = "springs"
    /\ PhaseBarrier
    /\ gpu_pc' = "vertices"
    /\ next_unit' = [l \in Lanes |-> l]
    /\ UNCHANGED <<hostVars, in_flight, accum, observed>>

\* A vertex unit reads its accumulator, integrates and clears it.
VertexUnit(l) ==
    /\ gpu_pc = "vertices"
    /\ next_unit[l] \in VertexUnits
    /\ observed' = [observed EXCEPT ![next_unit[l]] = [read |-> TRUE, value |-> accum[next_unit[l]]]]
    /\ accum' = [accum EXCEPT ![next_unit[l]] = {}]
    /\ next_unit' = [next_unit EXCEPT ![l] = @ + MaxInFlight]
    /\ UNCHANGED <<hostVars, gpu_pc, in_flight>>

\* Both dispatches of the frame have completed.
FinishFrame ==
    /\ gpu_pc = "vertices"
    /\ \A l \in Lanes : next_unit[l] \notin VertexUnits
    /\ gpu_pc' = "idle"
    /\ UNCHANGED <<hostVars, next_unit, in_flight, accum, observed>>

\* ------------------------------------------------------- specifications
InitCommon ==
    /\ overflow_checks \in BOOLEAN
    /\ pc = "vertices"
    /\ vertices = <<>>
    /\ indices = <<>>
    /\ velocities = <<>>
    /\ springs = <<>>
    /\ i = 0
    /\ compute_data = "none"
    /\ compute_data_buffer = "none"
    /\ nb_cloth_indices = 0
    /\ delta_time = 0
    /\ encoder = <<>>
    /\ executed = <<>>
    /\ frame = 0
    /\ gpu_pc = "idle"
    /\ next_unit = 0
    /\ in_flight = <<>>
    /\ accum = <<>>
    /\ observed = <<>>

\* main: MyApp::new calls create_cloth_mesh(CLOTH_WIDTH as u16, CLOTH_FALL_HEIGHT).
Init ==
    /\ CLOTH_WIDTH \in BuildWidths
    /\ width = U16(CLOTH_WIDTH)
    /\ InitCommon

\* create_cloth_mesh applied to any width argument.
InitMesh ==
    /\ CLOTH_WIDTH \in BuildWidths
    /\ width \in 0..MaxWidth
    /\ InitCommon

Next ==
    \/ BuildVertices
    \/ IndicesOverflowPanic
    \/ IndicesOverflowWrap
    \/ BuildIndices
    \/ BuildVelocities
    \/ SpringIteration
    \/ ReturnMesh
    \/ NewApp
    \/ UpdateBuffer
    \/ DispatchSprings
    \/ DispatchVertices
    \/ Submit

Spec == Init /\ [][Next]_vars

\* The state MyApp::new leaves, for the widths whose kernels are followed.
InitGpu ==
    /\ CLOTH_WIDTH \in 2..MaxGpuWidth
    /\ overflow_checks \in BOOLEAN
    /\ width = U16(CLOTH_WIDTH)
    /\ pc = "idle"
    /\ vertices = BuildVertexList(width)
    /\ indices = BuildIndexList(width)
    /\ velocities = BuildVelocityList(vertices)
    /\ springs = SpringsFrom(0)
    /\ i = NB_CLOTH_VERTICES
    /\ compute_data = NewComputeData
    /\ compute_data_buffer = NewComputeData
    /\ nb_cloth_indices = Len(indices)
    /\ delta_time = 0
    /\ encoder = <<>>
    /\ executed = <<>>
    /\ frame = 0
    /\ gpu_pc = "idle"
    /\ next_unit = [l \in Lanes |-> 0]
    /\ in_flight = [l \in Lanes |-> 0]
    /\ accum = [v \in VertexUnits |-> {}]
    /\ observed = [v \in VertexUnits |-> Unread]

NextGpu ==
    \/ GpuFrame
    \/ \E l \in Lanes : SpringUnitFirst(l)
    \/ \E l \in Lanes : SpringUnitSecond(l)
    \/ StartVertices
    \/ \E l \in Lanes : VertexUnit(l)
    \/ FinishFrame

SpecGpu == InitGpu /\ [][NextGpu]_vars

SpecMesh == InitMesh /\ [][Next]_vars

\* ------------------------------------------------------------ properties
\* create_cloth_mesh has returned its four vectors.
MeshReturned == pc \in {"new", "idle", "pass_springs", "pass_vertices", "submit"}

Abs(x) == IF x < 0 THEN -x ELSE x
GridX(v) == v % CLOTH_WIDTH
GridZ(v) == v \div CLOTH_WIDTH
SpringPair(s) == {s.vertex1, s.vertex2}
StaticFields(d) == [d EXCEPT !.delta_time = 0]

\* C1: for every grid width W >= 2 the spring loop emits exactly
\* 6*W^2 - 10*W + 2 springs, which is the NB_CLOTH_SPRINGS value uploaded to
\* the kernels and used to size the phase-1 dispatch.
C1_SpringCount ==
    (MeshReturned /\ CLOTH_WIDTH >= 2) =>
        /\ Len(springs) = 6 * CLOTH_WIDTH * CLOTH_WIDTH - 10 * CLOTH_WIDTH + 2
        /\ pc # "new" => compute_data_buffer.nb_cloth_springs = Len(springs)
        /\ \A k \in 1..Len(executed) :
              /\ executed[k].data.nb_cloth_springs = Len(springs)
              /\ executed[k].phase = "springs" =>
                    /\ executed[k].workgroups * 64 >= Len(springs)
                    /\ (executed[k].workgroups - 1) * 64 < Len(springs)

C1_Witness ==
    /\ CLOTH_WIDTH = 3
    /\ Len(springs) = 26
    /\ pc = "idle"
    /\ Len(executed) >= 2

\* C2: for every grid width W >= 2 every emitted spring joins two distinct
\* vertices, both in 0..W*W-1.
C2_SpringEndpointsValid ==
    CLOTH_WIDTH >= 2 =>
        \A k \in 1..Len(springs) :
            /\ springs[k].vertex1 # springs[k].vertex2
            /\ springs[k].vertex1 \in 0..(CLOTH_WIDTH * CLOTH_WIDTH - 1)
            /\ springs[k].vertex2 \in 0..(CLOTH_WIDTH * CLOTH_WIDTH - 1)

\* The last two vertices of a grid of width >= 3 have been visited, the
\* places where the bend-horizontal rule has no `< N` test.
C2_Witness ==
    /\ CLOTH_WIDTH >= 3
    /\ MeshReturned
    /\ \E k \in 1..Len(springs) :
          /\ springs[k].rest_length_sq = 4
          /\ springs[k].vertex2 = springs[k].vertex1 + 2
          /\ springs[k].vertex2 = CLOTH_WIDTH * CLOTH_WIDTH - 1

\* C3 as stated: the index list holds 6 indices per grid cell, 6*(W-1)^2 in all.
C3_SixPerCell ==
    (MeshReturned /\ width >= 2) => Len(indices) = 6 * (width - 1) * (width - 1)

\* C3, amended: the index list holds 12 indices per grid cell (the two
\* triangles of the cell, once in each winding order), 12*(W-1)^2 in all, and
\* the 12 indices of a cell are its four corner vertices.
C3_TwelvePerCell ==
    (MeshReturned /\ width >= 2) =>
        /\ Len(indices) = 12 * (width - 1) * (width - 1)
        /\ nb_cloth_indices # 0 => nb_cloth_indices = Len(indices)
        /\ \A c \in 0..((width - 1) * (width - 1) - 1) :
              LET z == c \div (width - 1)
                  x == c % (width - 1)
                  v0 == z * width + x
                  first == [k \in 1..6 |-> indices[12 * c + k]]
                  second == [k \in 1..6 |-> indices[12 * c + 6 + k]]
              IN  /\ first = <<v0, v0 + 1, v0 + width, v0 + 1, v0 + width + 1, v0 + width>>
                  /\ second = <<v0, v0 + width, v0 + 1, v0 + 1, v0 + width, v0 + width + 1>>

C3_Witness ==
    /\ pc = "idle"
    /\ width = 3
    /\ Len(indices) = 48
    /\ nb_cloth_indices = 48

\* C4: a width argument below 2 is rejected: create_cloth_mesh returns no
\* mesh for it and no simulation step is dispatched on it.
C4_SmallWidthRejected ==
    width < 2 => (~MeshReturned /\ executed = <<>>)

\* C5: every call of update dispatches the spring phase and then the vertex
\* phase, once each, and submits both before it returns; the dispatch trace
\* is springs, vertices, springs, vertices, ...
C5_PhaseAlternation ==
    /\ \A k \in 1..Len(executed) :
          /\ executed[k].phase = (IF k % 2 = 1 THEN "springs" ELSE "vertices")
          /\ executed[k].frame = (k + 1) \div 2
    /\ Len(executed) = 2 * frame
    /\ pc = "idle" => encoder = <<>>
    /\ pc = "pass_vertices" =>
          (Len(encoder) = 1 /\ encoder[1].phase = "springs")
    /\ pc = "submit" =>
          (Len(encoder) = 2 /\ encoder[1].phase = "springs" /\ encoder[2].phase = "vertices")

C5_Witness ==
    /\ pc = "idle"
    /\ frame = 2
    /\ Len(executed) = 4
    /\ executed[3].phase = "springs"
    /\ executed[4].phase = "vertices"

\* C7: a spring of rest length 1 joins grid neighbours (|dx| + |dz| = 1), one
\* of rest length sqrt(2) joins diagonal neighbours (|dx| = |dz| = 1), one of
\* rest length 2 joins vertices two apart in a row or a column; no spring
\* wraps from the end of a row to the start of the next.
C7_SpringGeometry ==
    CLOTH_WIDTH >= 2 =>
        \A k \in 1..Len(springs) :
            LET s == springs[k]
                dx == Abs(GridX(s.vertex1) - GridX(s.vertex2))
                dz == Abs(GridZ(s.vertex1) - GridZ(s.vertex2))
            IN  /\ s.rest_length_sq \in {1, 2, 4}
                /\ s.rest_length_sq = 1 => dx + dz = 1
                /\ s.rest_length_sq = 2 => (dx = 1 /\ dz = 1)
                /\ s.rest_length_sq = 4 => {dx, dz} = {0, 2}
                /\ s.rest_length_sq = 1 => s.stiffness = STRUCTURAL_STIFFNESS
                /\ s.rest_length_sq = 2 => s.stiffness = SHEAR_STIFFNESS
                /\ s.rest_length_sq = 4 => s.stiffness = BEND_STIFFNESS

\* All three classes are present and the right column has been visited.
C7_Witness ==
    /\ CLOTH_WIDTH >= 3
    /\ MeshReturned
    /\ \A c \in {1, 2, 4} : \E k \in 1..Len(springs) : springs[k].rest_length_sq = c
    /\ \E k \in 1..Len(springs) :
          springs[k].rest_length_sq = 2 /\ GridX(springs[k].vertex1) = CLOTH_WIDTH - 1

\* C8: no two entries of the spring list join the same unordered pair of
\* vertices.
C8_NoDuplicateSprings ==
    CLOTH_WIDTH >= 2 =>
        \A j, k \in 1..Len(springs) :
            j # k => SpringPair(springs[j]) # SpringPair(springs[k])

\* Width 2 and width 3 are the widths where a shear partner index equals a
\* structural or bend partner offset.
C8_Witness ==
    /\ CLOTH_WIDTH \in {2, 3}
    /\ MeshReturned
    /\ \E j, k \in 1..Len(springs) :
          /\ springs[j].rest_length_sq = 2
          /\ springs[k].rest_length_sq # 2
          /\ springs[j].vertex2 - springs[j].vertex1 = springs[k].vertex2 - springs[k].vertex1

\* C9: the record is written to the uniform buffer before either dispatch of
\* the frame, so both dispatches read the frame's delta_time; every other
\* field has the same value in every dispatched step, and the sphere centre
\* is the origin.
C9_UniformPerFrame ==
    /\ pc \in {"pass_springs", "pass_vertices", "submit"} =>
          compute_data_buffer.delta_time = delta_time
    /\ \A k \in 1..Len(executed) :
          /\ executed[k].data.delta_time = executed[k].frame_dt
          /\ StaticFields(executed[k].data) = StaticFields(executed[1].data)
          /\ executed[k].data.sphere_position_x = 0
          /\ executed[k].data.sphere_position_y = 0
          /\ executed[k].data.sphere_position_z = 0

\* Two frames ran with different delta_time values.
C9_Witness ==
    /\ Len(executed) = 4
    /\ executed[1].data.delta_time # executed[3].data.delta_time
    /\ executed[1].data.sphere_radius = executed[4].data.sphere_radius

\* C10: for every width argument >= 2 the four outputs agree: width*width
\* vertices, one zero velocity per vertex, every triangle index and every
\* spring endpoint below the number of vertices.
C10_OutputsConsistent ==
    (MeshReturned /\ width >= 2) =>
        /\ Len(vertices) = width * width
        /\ Len(velocities) = Len(vertices)
        /\ \A k \in 1..Len(velocities) : velocities[k] = <<0, 0, 0>>
        /\ \A k \in 1..Len(indices) : indices[k] < Len(vertices)
        /\ \A k \in 1..Len(springs) :
              springs[k].vertex1 < Len(vertices) /\ springs[k].vertex2 < Len(vertices)

\* C6: whatever the interleaving of the spring units, every spring incident
\* to a vertex is in that vertex's accumulator, and nothing else, when the
\* vertex unit reads it; once the vertex dispatch runs, every accumulator not
\* yet read is complete.
C6_RaceFreeAccumulation ==
    /\ \A v \in VertexUnits :
          observed[v].read => observed[v].value = Incident(v)
    /\ gpu_pc = "vertices" =>
          \A v \in VertexUnits : ~observed[v].read => accum[v] = Incident(v)

\* In the second frame, a vertex shared by three springs has been read while
\* another is still to be read.
C6_Witness ==
    /\ gpu_pc = "vertices"
    /\ frame = 2
    /\ \E v \in VertexUnits : observed[v].read /\ Cardinality(observed[v].value) >= 3
    /\ \E v \in VertexUnits : ~observed[v].read

====
